---- MODULE Spec2Model ----
(***************************************************************************)
(* Poll-and-extract engine of utils/gmailHelpers.ts                        *)
(* (waitAndExtractUrlByRecipient, normalizeGmail, extractLinks) and the    *)
(* gateway surface of utils/gmailClient.ts (fetchEmails) it polls.         *)
(*                                                                         *)
(* A JavaScript string is a sequence of one-character strings, so that     *)
(* trim, toLowerCase, split, includes and the two regular expressions are  *)
(* computed character by character.  An optional field is a sequence of    *)
(* length 0 (absent) or 1 (present).                                       *)
(*                                                                         *)
(* The operators on strings have the form  The({ e : s \in {str} }) : the  *)
(* value of e with s bound to the value of the argument str.  It is e with *)
(* str for s; the binding makes TLC evaluate str once, also where it keeps *)
(* no values of arguments (inside ENABLED and primed expressions).         *)
(***************************************************************************)
EXTENDS Integers, Sequences, FiniteSets, TLC

VARIABLES
    pc,              \* where the call of waitAndExtractUrlByRecipient stands
    req,             \* its arguments
    available,       \* the mailbox paths the store lists
    now,             \* Date.now()
    startedAt,       \* Date.now() at entry
    deadline,        \* const deadline
    targetRecipient, \* const targetRecipient
    subjectNeedle,   \* const subjectNeedle
    urlNeedle,       \* const urlNeedle
    waitUntil,       \* when the pending setTimeout fires
    gw,              \* the promise of the fetchEmails call in flight
    emails,          \* const emails of the current cycle
    latest,          \* const latest of the current cycle (0 or 1 element)
    result,          \* the returned URL (0 or 1 element)
    error,           \* the error the call threw
    arg,             \* input of the function under study
    ret,             \* its outputs
    store,           \* the messages of the mailbox, in UID order
    sessions,        \* the sessions open on the mail store
    call             \* the locals of the fetchEmails call in flight

vars == <<pc, req, available, now, startedAt, deadline, targetRecipient,
          subjectNeedle, urlNeedle, waitUntil, gw, emails, latest, result,
          error, arg, ret, store, sessions, call>>

engineVars == <<pc, req, available, now, startedAt, deadline, targetRecipient,
                subjectNeedle, urlNeedle, waitUntil, gw, emails, latest,
                result, error>>

The(S) == CHOOSE x \in S : TRUE

-----------------------------------------------------------------------------
(* Characters and strings *)

LowerLetters == {"a","b","c","d","e","f","g","h","i","j","k","l","m",
                 "n","o","p","q","r","s","t","u","v","w","x","y","z"}

UpperLetters == {"A","B","C","D","E","F","G","H","I","J","K","L","M",
                 "N","O","P","Q","R","S","T","U","V","W","X","Y","Z"}

Digits == {"0","1","2","3","4","5","6","7","8","9"}

\* \s of a regular expression, and what String.prototype.trim removes
IsSpace(c) == c \in {" ", "\t", "\n", "\r"}

\* \w of a regular expression
IsWord(c) == c \in LowerLetters \cup UpperLetters \cup Digits \cup {"_"}

LowerChar(c) ==
    CASE c = "A" -> "a" [] c = "B" -> "b" [] c = "C" -> "c" [] c = "D" -> "d"
      [] c = "E" -> "e" [] c = "F" -> "f" [] c = "G" -> "g" [] c = "H" -> "h"
      [] c = "I" -> "i" [] c = "J" -> "j" [] c = "K" -> "k" [] c = "L" -> "l"
      [] c = "M" -> "m" [] c = "N" -> "n" [] c = "O" -> "o" [] c = "P" -> "p"
      [] c = "Q" -> "q" [] c = "R" -> "r" [] c = "S" -> "s" [] c = "T" -> "t"
      [] c = "U" -> "u" [] c = "V" -> "v" [] c = "W" -> "w" [] c = "X" -> "x"
      [] c = "Y" -> "y" [] c = "Z" -> "z" [] OTHER -> c

\* String.prototype.toLowerCase
ToLowerCase(str) ==
    The({ [i \in 1..Len(s) |-> LowerChar(s[i])] : s \in {str} })

SetMin(S) == CHOOSE x \in S : \A y \in S : x <= y

SetMax(S) == CHOOSE x \in S : \A y \in S : y <= x

\* String.prototype.trim
Trim(str) ==
    The({ LET keep == {i \in 1..Len(s) : ~IsSpace(s[i])}
          IN  IF keep = {} THEN <<>>
              ELSE SubSeq(s, SetMin(keep), SetMax(keep))
          : s \in {str} })

\* String.prototype.includes
Includes(str, substr) ==
    The({ \E i \in 0..(Len(s) - Len(sub)) :
              SubSeq(s, i + 1, i + Len(sub)) = sub
          : s \in {str}, sub \in {substr} })

\* Array.prototype.includes
ArrayIncludes(array, x) ==
    The({ \E i \in 1..Len(xs) : xs[i] = y : xs \in {array}, y \in {x} })

\* String.prototype.split with a one-character separator
RECURSIVE Split(_, _)
Split(str, sep) ==
    The({ LET at == {i \in 1..Len(s) : s[i] = sep}
          IN  IF at = {} THEN <<s>>
              ELSE <<SubSeq(s, 1, SetMin(at) - 1)>>
                   \o Split(SubSeq(s, SetMin(at) + 1, Len(s)), sep)
          : s \in {str} })

IsListSep(c) == c = "," \/ IsSpace(c)

\* the end of the run of [,\s] that starts at i
ListSepRunEnd(str, from) ==
    The({ LET stop == {j \in i..Len(s) : ~IsListSep(s[j])}
          IN  IF stop = {} THEN Len(s) ELSE SetMin(stop) - 1
          : s \in {str}, i \in {from} })

\* String.prototype.split(/[,\s]+/)
RECURSIVE SplitList(_)
SplitList(str) ==
    The({ LET at == {i \in 1..Len(s) : IsListSep(s[i])}
          IN  IF at = {} THEN <<s>>
              ELSE <<SubSeq(s, 1, SetMin(at) - 1)>>
                   \o SplitList(SubSeq(s, ListSepRunEnd(s, SetMin(at)) + 1,
                                       Len(s)))
          : s \in {str} })

-----------------------------------------------------------------------------
(* normalizeGmail *)

At == <<"@">>

GmailCom == <<"g","m","a","i","l",".","c","o","m">>

GooglemailCom == <<"g","o","o","g","l","e","m","a","i","l",".","c","o","m">>

\* the local part cut at its last "+" instead of its first
normalizeGmailLastPlus(addr) ==
    The({ IF ~Includes(lower, At) THEN lower
          ELSE The({ IF parts[2] = GmailCom \/ parts[2] = GooglemailCom
                     THEN The({ IF Len(cut) = 1 THEN cut[1]
                                ELSE SubSeq(parts[1], 1,
                                            Len(parts[1]) - Len(cut[Len(cut)]) - 1)
                                : cut \in {Split(parts[1], "+")} })
                          \o At \o parts[2]
                     ELSE lower
                     : parts \in {Split(lower, "@")} })
          : lower \in {ToLowerCase(Trim(addr))} })

\* parts[1] is local and parts[2] is domain of  [local, domain] = lower.split("@")
normalizeGmail(addr) ==
    The({ IF ~Includes(lower, At) THEN lower
          ELSE The({ IF parts[2] = GmailCom \/ parts[2] = GooglemailCom
                     THEN Split(parts[1], "+")[1] \o At \o parts[2]
                     ELSE lower
                     : parts \in {Split(lower, "@")} })
          : lower \in {ToLowerCase(Trim(addr))} })

-----------------------------------------------------------------------------
(* extractLinks *)

Http == <<"h","t","t","p">>

ColonSlashSlash == <<":","/","/">>

\* [^\s<>"'] : a closing parenthesis taken for a character of the URL
IsUrlCharWithParen(c) == ~IsSpace(c) /\ c \notin {"<", ">", "\"", "'"}

\* [^\s<>"')]
IsUrlChar(c) == ~IsSpace(c) /\ c \notin {"<", ">", "\"", "'", ")"}

\* [),.;\]\>"']
IsTrailingChar(c) == c \in {")", ",", ".", ";", "]", ">", "\"", "'"}

\* where the body of a token starts when \bhttps?:\/\/ (flag i) matches at i,
\* 0 when it does not
SchemeEnd(str, from) ==
    The({ IF ~(i = 1 \/ ~IsWord(s[i - 1])) THEN 0
          ELSE IF i + 3 > Len(s) \/ ToLowerCase(SubSeq(s, i, i + 3)) # Http
               THEN 0
          ELSE IF /\ i + 7 <= Len(s)
                  /\ LowerChar(s[i + 4]) = "s"
                  /\ SubSeq(s, i + 5, i + 7) = ColonSlashSlash
               THEN i + 8
          ELSE IF i + 6 <= Len(s) /\ SubSeq(s, i + 4, i + 6) = ColonSlashSlash
               THEN i + 7
          ELSE 0
          : s \in {str}, i \in {from} })

\* the end of the run of [^\s<>"')] that starts at i (i - 1 when it is empty)
UrlRunEnd(str, from) ==
    The({ LET stop == {j \in i..Len(s) : ~IsUrlChar(s[j])}
          IN  IF stop = {} THEN Len(s) ELSE SetMin(stop) - 1
          : s \in {str}, i \in {from} })

\* the last index of the match of re at i, 0 when re does not match at i
MatchEnd(str, from) ==
    The({ IF b = 0 THEN 0
          ELSE The({ IF e < b THEN 0 ELSE e : e \in {UrlRunEnd(str, b)} })
          : b \in {SchemeEnd(str, from)} })

\* one trailing character removed instead of the whole run
StripTrailingOne(url) ==
    The({ IF u # <<>> /\ IsTrailingChar(u[Len(u)])
          THEN SubSeq(u, 1, Len(u) - 1) ELSE u
          : u \in {url} })

\* m[0].replace(/[),.;\]\>"']+$/g, "")
StripTrailing(url) ==
    The({ LET keep == {i \in 1..Len(u) : ~IsTrailingChar(u[i])}
          IN  IF keep = {} THEN <<>> ELSE SubSeq(u, 1, SetMax(keep))
          : u \in {url} })

\* a set that lists its newest element first
SetAddFront(set, url) ==
    The({ IF ArrayIncludes(urls, u) THEN urls ELSE <<u>> \o urls
          : urls \in {set}, u \in {url} })

\* Set.prototype.add on an insertion-ordered set
SetAdd(set, url) ==
    The({ IF ArrayIncludes(urls, u) THEN urls ELSE Append(urls, u)
          : urls \in {set}, u \in {url} })

\* the while loop over re.exec, with lastIndex = from - 1
RECURSIVE ExecLoop(_, _, _)
ExecLoop(src, from, set) ==
    The({ IF i > Len(s) THEN urls
          ELSE The({ IF e = 0 THEN ExecLoop(s, i + 1, urls)
                     ELSE ExecLoop(s, e + 1,
                                   SetAdd(urls, StripTrailing(SubSeq(s, i, e))))
                     : e \in {MatchEnd(s, i)} })
          : s \in {src}, i \in {from}, urls \in {set} })

extractLinks(src) == ExecLoop(src, 1, <<>>)

-----------------------------------------------------------------------------
(* Message summaries (EmailLite as the engine reads it) *)

Absent == <<>>

Some(v) == <<v>>

\* x ?? d
OrElse(x, d) == The({ IF v = Absent THEN d ELSE v[1] : v \in {x} })

\* the address list alone, without the split of the To header
ToAddrsFieldOnly(e) == e.toAddresses

\* toAddrs of the filter callback
ToAddrs(e) ==
    IF Len(e.toAddresses) > 0 THEN e.toAddresses
    ELSE IF e.to # Absent THEN SplitList(e.to[1])
    ELSE <<>>

\* the filter callback of emails.filter
Qualifies(msg, target, needle) ==
    The({ LET subjectOk ==
                Includes(ToLowerCase(OrElse(e.subject, <<>>)), needle)
              allAddrs  ==
                The({ [i \in 1..Len(toAddrs) |-> normalizeGmail(toAddrs[i])]
                      : toAddrs \in {ToAddrs(e)} })
              toOk      ==
                \/ ArrayIncludes(allAddrs, target)
                \/ Includes(ToLowerCase(OrElse(e.to, <<>>)), target)
          IN  subjectOk /\ toOk
          : e \in {msg} })

\* Array.prototype.filter
RECURSIVE Filter(_, _, _)
Filter(array, target, needle) ==
    The({ IF xs = <<>> THEN <<>>
          ELSE (IF Qualifies(Head(xs), target, needle)
                THEN <<Head(xs)>> ELSE <<>>)
               \o Filter(Tail(xs), target, needle)
          : xs \in {array} })

\* the comparator of the sort: negative when a goes before b
Compare(a, b) ==
    LET ai == OrElse(a.internalDateMs, 0)
        bi == OrElse(b.internalDateMs, 0)
        ad == OrElse(a.date, 0)
        bd == OrElse(b.date, 0)
    IN  IF bi # ai THEN bi - ai ELSE bd - ad

\* x put before the elements it ties with: a sort that is not stable
InsertUnstable(list, x) ==
    The({ LET before == {i \in 1..Len(sorted) : Compare(x, sorted[i]) <= 0}
              k      == IF before = {} THEN Len(sorted) + 1 ELSE SetMin(before)
          IN  SubSeq(sorted, 1, k - 1) \o <<x>> \o SubSeq(sorted, k, Len(sorted))
          : sorted \in {list} })

\* x put into a sorted list, after every element it does not go before
Insert(list, x) ==
    The({ LET before == {i \in 1..Len(sorted) : Compare(x, sorted[i]) < 0}
              k      == IF before = {} THEN Len(sorted) + 1 ELSE SetMin(before)
          IN  SubSeq(sorted, 1, k - 1) \o <<x>> \o SubSeq(sorted, k, Len(sorted))
          : sorted \in {list} })

\* Array.prototype.sort, which is stable
RECURSIVE SortFrom(_, _)
SortFrom(array, list) ==
    The({ IF xs = <<>> THEN sorted
          ELSE SortFrom(Tail(xs), Insert(sorted, Head(xs)))
          : xs \in {array}, sorted \in {list} })

Sort(array) == SortFrom(array, <<>>)

\* const latest = [...candidates].sort(...)[0], inside if (candidates.length)
Latest(candidates) ==
    The({ IF Len(cs) = 0 THEN Absent ELSE Some(Sort(cs)[1])
          : cs \in {candidates} })

\* const body
Body(m) ==
    IF m.htmlAsText # Absent /\ m.htmlAsText[1] # <<>> THEN m.htmlAsText[1]
    ELSE IF m.text # Absent /\ m.text[1] # <<>> THEN m.text[1]
    ELSE <<>>

\* find returning the last match instead of the first
RECURSIVE FindLast(_, _)
FindLast(array, needle) ==
    The({ IF links = <<>> THEN Absent
          ELSE IF Includes(ToLowerCase(links[Len(links)]), needle)
               THEN Some(links[Len(links)])
          ELSE FindLast(SubSeq(links, 1, Len(links) - 1), needle)
          : links \in {array} })

\* links.find((u) => u.toLowerCase().includes(urlNeedle))
RECURSIVE Find(_, _)
Find(array, needle) ==
    The({ IF links = <<>> THEN Absent
          ELSE IF Includes(ToLowerCase(Head(links)), needle)
               THEN Some(Head(links))
          ELSE Find(Tail(links), needle)
          : links \in {array} })

\* const match of one cycle: Absent when the cycle has no candidate
Match(selected, needle) ==
    The({ IF sel = Absent THEN Absent
          ELSE Find(extractLinks(Body(sel[1])), needle)
          : sel \in {selected} })

-----------------------------------------------------------------------------
(* The requests and the messages the engine is run on *)

JanePlusTest ==
    <<"J","a","n","e","+","t","e","s","t","@","g","m","a","i","l",".",
      "c","o","m">>

BobAtX ==
    <<"b","o","b","@","x",".","i","o">>

VerifyKeyword ==
    <<"V","e","r","i","f","y">>

ResetKeyword ==
    <<"r","e","s","e","t">>

JaneAddress ==
    <<"j","a","n","e","@","g","m","a","i","l",".","c","o","m">>

AliasAddress ==
    <<"J","a","n","e","+","x","@","G","m","a","i","l",".","c","o","m">>

BobAddress ==
    <<"B","o","b","@","X",".","i","o">>

JaneHeader ==
    <<"J"," ","<","j","a","n","e","@","g","m","a","i","l",".","c","o",
      "m",">">>

AliasHeader ==
    <<"J","a","n","e","+","x","@","G","m","a","i","l",".","c","o","m",
      ","," ","b","o","b","@","x",".","i","o">>

SubjectPleaseVerify ==
    <<"P","l","e","a","s","e"," ","v","e","r","i","f","y">>

SubjectVerifyUpper ==
    <<"V","E","R","I","F","Y">>

SubjectHello ==
    <<"H","e","l","l","o">>

SubjectVerifyLater ==
    <<"v","e","r","i","f","y"," ","l","a","t","e","r">>

TextConfirm ==
    <<"g","o",":"," ","h","t","t","p","s",":","/","/","e",".","c","o",
      "m","/","v","e","r","i","f","y","/","a","1",".">>

HtmlThreeLinks ==
    <<"h","t","t","p",":","/","/","a","/","x",","," ","h","t","t","p",
      ":","/","/","a","/","V","E","R","I","F","Y",")"," ","h","t","t",
      "p",":","/","/","a","/","v","e","r","i","f","y">>

TextOneLink ==
    <<"h","t","t","p",":","/","/","t","/","v","e","r","i","f","y">>

HtmlHello ==
    <<"h","t","t","p",":","/","/","h","/","v","e","r","i","f","y">>

TextReset ==
    <<"n","o",";"," ","h","t","t","p",":","/","/","n","/","r","e","s",
      "e","t">>

Msg(subject, toAddresses, to, internalDateMs, date, htmlAsText, text) ==
    [uid |-> 0, subject |-> subject, toAddresses |-> toAddresses, to |-> to,
     internalDateMs |-> internalDateMs, date |-> date,
     htmlAsText |-> htmlAsText, text |-> text]

EarlyMs == 3

MidMs == 5

LateMs == 9

MessagePool ==
    { Msg(Some(SubjectPleaseVerify), <<JaneAddress>>, Some(JaneHeader),
          Absent, Some(LateMs), Absent, Some(TextConfirm)),
      Msg(Some(SubjectVerifyUpper), <<>>, Some(AliasHeader),
          Some(MidMs), Some(EarlyMs), Some(HtmlThreeLinks), Some(TextOneLink)),
      Msg(Some(SubjectHello), <<JaneAddress>>, Absent,
          Some(LateMs), Some(LateMs), Some(HtmlHello), Absent),
      Msg(Some(SubjectVerifyLater), <<JaneAddress, BobAddress>>, Absent,
          Some(LateMs), Absent, Some(<<>>), Some(TextReset)),
      Msg(Absent, <<>>, Absent, Absent, Absent, Absent, Some(TextOneLink)) }

\* the most messages one gateway answer holds
MaxEmails == 2

SeqsUpTo(S, n) == UNION {[1..k -> S] : k \in 0..n}

\* uid: the message's place in the answer
WithUids(xs) == [i \in 1..Len(xs) |-> [xs[i] EXCEPT !.uid = i]]

Responses == {WithUids(xs) : xs \in SeqsUpTo(MessagePool, MaxEmails)}

\* timeoutSeconds * 1000
MsPerSecond == 1000

\* pollIntervalMs = 3000
DefaultPollIntervalMs == 3000

\* the step of the clock
TickMs == 500

MaxTimeoutSeconds == 1

Timeouts == (0 - 1)..MaxTimeoutSeconds

PollIntervals == {0, TickMs, DefaultPollIntervalMs}

Mailboxes == {"INBOX", "inbox"}

Requests ==
    [recipientEmail : {JanePlusTest, BobAtX},
     subjectKeyword : {VerifyKeyword},
     urlKeyword     : {VerifyKeyword, ResetKeyword},
     timeoutSeconds : Timeouts,
     pollIntervalMs : PollIntervals,
     mailbox        : Mailboxes]

NoError ==
    [kind |-> "none", seconds |-> 0, urlKeyword |-> <<>>,
     recipient |-> <<>>, subject |-> <<>>]

\* the Error built from the normalized recipient and the lowercased keywords
TimeoutErrorNormalized(r) ==
    [kind |-> "Timeout", seconds |-> r.timeoutSeconds,
     urlKeyword |-> ToLowerCase(r.urlKeyword),
     recipient |-> normalizeGmail(r.recipientEmail),
     subject |-> ToLowerCase(r.subjectKeyword)]

\* the Error thrown at the end of waitAndExtractUrlByRecipient
TimeoutError(r) ==
    [kind |-> "Timeout", seconds |-> r.timeoutSeconds,
     urlKeyword |-> r.urlKeyword, recipient |-> r.recipientEmail,
     subject |-> r.subjectKeyword]

\* an Error thrown by fetchEmails
GatewayError(kind) == [NoError EXCEPT !.kind = kind]

Idle == [status |-> "idle", failure |-> "none"]

Pending == [status |-> "pending", failure |-> "none"]

-----------------------------------------------------------------------------
(* waitAndExtractUrlByRecipient against the gateway *)

PureIdle == arg = <<>> /\ ret = <<>>

\* what fetchEmails keeps between its awaits
NoCall ==
    [pc |-> "idle", sinceDate |-> <<>>, searches |-> <<>>, uidsArr |-> <<>>,
     ordered |-> <<>>, next |-> 1, results |-> <<>>, failure |-> "none"]

\* no fetchEmails call is running and no session is open
GatewayAtRest == store = <<>> /\ sessions = 0 /\ call = NoCall

Init ==
    /\ pc = "entry"
    /\ req \in Requests
    /\ available = {"INBOX", "[Gmail]/Spam"}
    /\ now = 0
    /\ startedAt = 0
    /\ deadline = 0
    /\ targetRecipient = <<>>
    /\ subjectNeedle = <<>>
    /\ urlNeedle = <<>>
    /\ waitUntil = 0
    /\ gw = Idle
    /\ emails = <<>>
    /\ latest = Absent
    /\ result = Absent
    /\ error = NoError
    /\ PureIdle
    /\ GatewayAtRest

\* while (true)
LoopContinuesAlways(t, d) == TRUE

\* while (Date.now() <= deadline)
LoopContinuesInclusive(t, d) == t <= d

\* while (Date.now() < deadline)
LoopContinues(t, d) == t < d

\* the loop left without the throw: the function returns undefined
LoopTopNoThrow(d) ==
    /\ emails' = <<>>
    /\ latest' = Absent
    /\ IF LoopContinues(now, d)
       THEN /\ pc' = "fetching"
            /\ gw' = Pending
            /\ error' = error
       ELSE /\ pc' = "Returned"
            /\ gw' = Idle
            /\ error' = error

\* the top of the loop: the next fetchEmails call, or the throw after the
\* loop; the emails and latest of the iteration before are out of scope
LoopTop(d) ==
    /\ emails' = <<>>
    /\ latest' = Absent
    /\ IF LoopContinues(now, d)
       THEN /\ pc' = "fetching"
            /\ gw' = Pending
            /\ error' = error
       ELSE /\ pc' = "TimedOut"
            /\ gw' = Idle
            /\ error' = TimeoutError(req)

\* the call, up to its first await
Enter ==
    /\ pc = "entry"
    /\ startedAt' = now
    /\ deadline' = now + req.timeoutSeconds * MsPerSecond
    /\ targetRecipient' = normalizeGmail(req.recipientEmail)
    /\ subjectNeedle' = ToLowerCase(req.subjectKeyword)
    /\ urlNeedle' = ToLowerCase(req.urlKeyword)
    /\ LoopTop(deadline')
    /\ UNCHANGED <<req, available, now, waitUntil, result, arg, ret,
                   store, sessions, call>>

\* fetchEmails returns its results
GatewayResolve ==
    /\ pc = "fetching"
    /\ gw.status = "pending"
    /\ req.mailbox \in available
    /\ \E r \in Responses :
          /\ gw' = [status |-> "resolved", failure |-> "none"]
          /\ emails' = r
    /\ UNCHANGED <<pc, req, available, now, startedAt, deadline,
                   targetRecipient, subjectNeedle, urlNeedle, waitUntil,
                   latest, result, error, arg, ret,
                   store, sessions, call>>

\* fetchEmails throws: the connect failure, or the mailbox that does not exist
GatewayReject ==
    /\ pc = "fetching"
    /\ gw.status = "pending"
    /\ \/ gw' = [status |-> "rejected", failure |-> "GatewayUnavailable"]
       \/ /\ req.mailbox \notin available
          /\ gw' = [status |-> "rejected", failure |-> "MailboxNotFound"]
    /\ UNCHANGED <<pc, req, available, now, startedAt, deadline,
                   targetRecipient, subjectNeedle, urlNeedle, waitUntil,
                   emails, latest, result, error, arg, ret,
                   store, sessions, call>>

\* the interval taken for seconds
TimerDueSeconds(t, interval) == t + interval * MsPerSecond

\* setTimeout(r, pollIntervalMs) set at t
TimerDue(t, interval) == t + interval

\* the loop body after await fetchEmails, up to return or await setTimeout
Resume ==
    /\ pc = "fetching"
    /\ gw.status = "resolved"
    /\ \E candidates \in {Filter(emails, targetRecipient, subjectNeedle)} :
       \E sel \in {Latest(candidates)} :
       \E match \in {Match(sel, urlNeedle)} :
          /\ latest' = sel
          /\ IF match # Absent /\ match[1] # <<>>
             THEN /\ pc' = "Succeeded"
                  /\ result' = match
                  /\ waitUntil' = waitUntil
             ELSE /\ pc' = "waiting"
                  /\ result' = result
                  /\ waitUntil' = TimerDue(now, req.pollIntervalMs)
    /\ gw' = Idle
    /\ UNCHANGED <<req, available, now, startedAt, deadline, targetRecipient,
                   subjectNeedle, urlNeedle, emails, error, arg, ret,
                   store, sessions, call>>

\* the rejection caught and logged, and the loop carried on
PropagateSwallowed ==
    /\ pc = "fetching"
    /\ gw.status = "rejected"
    /\ pc' = "waiting"
    /\ waitUntil' = TimerDue(now, req.pollIntervalMs)
    /\ gw' = Idle
    /\ UNCHANGED <<req, available, now, startedAt, deadline, targetRecipient,
                   subjectNeedle, urlNeedle, emails, latest, result, error,
                   arg, ret,
                   store, sessions, call>>

\* the rejection of await fetchEmails leaves the function
Propagate ==
    /\ pc = "fetching"
    /\ gw.status = "rejected"
    /\ pc' = "Failed"
    /\ error' = GatewayError(gw.failure)
    /\ gw' = Idle
    /\ UNCHANGED <<req, available, now, startedAt, deadline, targetRecipient,
                   subjectNeedle, urlNeedle, waitUntil, emails, latest,
                   result, arg, ret,
                   store, sessions, call>>

\* the setTimeout of the loop body fires, and the loop condition is read again
TimerFires ==
    /\ pc = "waiting"
    /\ now >= waitUntil
    /\ LoopTop(deadline)
    /\ UNCHANGED <<req, available, now, startedAt, deadline, targetRecipient,
                   subjectNeedle, urlNeedle, waitUntil, result, arg, ret,
                   store, sessions, call>>

Running == pc \in {"fetching", "waiting"}

\* no timer of the call is due later: a query begun before the deadline ends
\* less than a tick after it, and the timer then set runs one interval
Horizon == deadline + TickMs + req.pollIntervalMs

\* the clock advances, as far as the call can tell
Tick ==
    /\ Running
    /\ now < deadline \/ (pc = "waiting" /\ now < waitUntil)
    /\ now < Horizon
    /\ now' = now + TickMs
    /\ UNCHANGED <<pc, req, available, startedAt, deadline, targetRecipient,
                   subjectNeedle, urlNeedle, waitUntil, gw, emails, latest,
                   result, error, arg, ret,
                   store, sessions, call>>

Next ==
    \/ Enter
    \/ GatewayResolve
    \/ GatewayReject
    \/ Resume
    \/ Propagate
    \/ TimerFires
    \/ Tick

Spec == Init /\ [][Next]_vars

\* the runtime runs every continuation that is ready, every gateway query
\* returns or throws, and the clock advances
Fairness ==
    /\ WF_vars(Enter)
    /\ WF_vars(GatewayResolve \/ GatewayReject)
    /\ WF_vars(Resume)
    /\ WF_vars(Propagate)
    /\ WF_vars(TimerFires)
    /\ WF_vars(Tick)

\* termination does not depend on the strings of the request: one recipient
\* and one URL keyword
InitLive ==
    /\ Init
    /\ req.recipientEmail = JanePlusTest
    /\ req.urlKeyword = VerifyKeyword

FairSpec == InitLive /\ [][Next]_vars /\ Fairness

-----------------------------------------------------------------------------
(* The steps of one cycle on their own: normalizeGmail, the filter callback *)
(* and the choice of latest, each applied to inputs of its own              *)

\* no call of waitAndExtractUrlByRecipient is running
EngineAtRest ==
    /\ req = [recipientEmail |-> <<>>, subjectKeyword |-> <<>>,
              urlKeyword |-> <<>>, timeoutSeconds |-> 0,
              pollIntervalMs |-> 0, mailbox |-> "INBOX"]
    /\ available = {}
    /\ now = 0
    /\ startedAt = 0
    /\ deadline = 0
    /\ targetRecipient = <<>>
    /\ subjectNeedle = <<>>
    /\ urlNeedle = <<>>
    /\ waitUntil = 0
    /\ gw = Idle
    /\ emails = <<>>
    /\ latest = Absent
    /\ result = Absent
    /\ error = NoError
    /\ GatewayAtRest

\* the most pieces an address is put together from
MaxAtoms == 4

MixedGooglemailCom ==
    <<"G","o","o","g","l","e","M","a","i","l",".","c","o","m">>

AddressAtoms ==
    {<<"a">>, <<"B">>, <<"+">>, <<"@">>, <<" ">>, GmailCom, MixedGooglemailCom}

RECURSIVE Flatten(_)
Flatten(pieces) ==
    IF pieces = <<>> THEN <<>> ELSE Head(pieces) \o Flatten(Tail(pieces))

Addresses == {Flatten(pieces) : pieces \in SeqsUpTo(AddressAtoms, MaxAtoms)}

InitNormalize ==
    /\ EngineAtRest
    /\ pc = "normalize"
    /\ arg \in {<<a>> : a \in Addresses}
    /\ ret = <<>>

\* normalizeGmail(a)
NormalizeFirst ==
    /\ pc = "normalize"
    /\ ret' = <<normalizeGmail(arg[1])>>
    /\ pc' = "once"
    /\ UNCHANGED <<req, available, now, startedAt, deadline, targetRecipient,
                   subjectNeedle, urlNeedle, waitUntil, gw, emails, latest,
                   result, error, arg,
                   store, sessions, call>>

\* normalizeGmail of what normalizeGmail returned
NormalizeAgain ==
    /\ pc = "once"
    /\ ret' = Append(ret, normalizeGmail(ret[1]))
    /\ pc' = "normalized"
    /\ UNCHANGED <<req, available, now, startedAt, deadline, targetRecipient,
                   subjectNeedle, urlNeedle, waitUntil, gw, emails, latest,
                   result, error, arg,
                   store, sessions, call>>

NextNormalize == NormalizeFirst \/ NormalizeAgain

SpecNormalize == InitNormalize /\ [][NextNormalize]_vars

\* the most addresses in the address list of a message
MaxAddresses == 2

BobHeader == BobAddress

FilterSubjects ==
    {Absent, Some(SubjectPleaseVerify), Some(SubjectVerifyUpper),
     Some(SubjectHello)}

FilterHeaders == {Absent, Some(JaneHeader), Some(AliasHeader), Some(BobHeader)}

FilterMessages ==
    { Msg(subject, toAddresses, to, Absent, Absent, Absent, Absent) :
        subject \in FilterSubjects,
        toAddresses \in SeqsUpTo({JaneAddress, AliasAddress, BobAddress},
                                 MaxAddresses),
        to \in FilterHeaders }

InitFilter ==
    /\ EngineAtRest
    /\ pc = "filter"
    /\ arg \in { <<e, recipientEmail, VerifyKeyword>> :
                   e \in FilterMessages,
                   recipientEmail \in {JanePlusTest, BobAtX} }
    /\ ret = <<>>

\* const targetRecipient, const subjectNeedle
Prepare ==
    /\ pc = "filter"
    /\ targetRecipient' = normalizeGmail(arg[2])
    /\ subjectNeedle' = ToLowerCase(arg[3])
    /\ pc' = "prepared"
    /\ UNCHANGED <<req, available, now, startedAt, deadline, urlNeedle,
                   waitUntil, gw, emails, latest, result, error, arg, ret,
                   store, sessions, call>>

\* the filter callback on one message of the answer
FilterOne ==
    /\ pc = "prepared"
    /\ ret' = <<Qualifies(arg[1], targetRecipient, subjectNeedle)>>
    /\ pc' = "filtered"
    /\ UNCHANGED <<req, available, now, startedAt, deadline, targetRecipient,
                   subjectNeedle, urlNeedle, waitUntil, gw, emails, latest,
                   result, error, arg,
                   store, sessions, call>>

NextFilter == Prepare \/ FilterOne

SpecFilter == InitFilter /\ [][NextFilter]_vars

\* the most candidates of one cycle
MaxCandidates == 3

\* the received times a candidate carries: none, zero or a time
Stamped ==
    { Msg(Absent, <<>>, Absent, internalDateMs, date, Absent, Absent) :
        internalDateMs \in {Absent, Some(0), Some(MidMs), Some(LateMs)},
        date \in {Absent, Some(EarlyMs), Some(LateMs)} }

CandidateLists == {WithUids(xs) : xs \in SeqsUpTo(Stamped, MaxCandidates)}

InitSelect ==
    /\ EngineAtRest
    /\ pc = "select"
    /\ arg \in {<<candidates>> : candidates \in CandidateLists}
    /\ ret = <<>>

\* if (candidates.length) { const latest = [...candidates].sort(...)[0]
Select ==
    /\ pc = "select"
    /\ ret' = Latest(arg[1])
    /\ pc' = "selected"
    /\ UNCHANGED <<req, available, now, startedAt, deadline, targetRecipient,
                   subjectNeedle, urlNeedle, waitUntil, gw, emails, latest,
                   result, error, arg,
                   store, sessions, call>>

NextSelect == Select

SpecSelect == InitSelect /\ [][NextSelect]_vars

-----------------------------------------------------------------------------
(* Properties of the poll *)

\* the call is over: it returned or threw
Ended == pc \notin {"entry", "fetching", "waiting"}

\* the URLs of the selected message's body, in extraction order
SelectedLinks == IF latest = Absent THEN <<>> ELSE extractLinks(Body(latest[1]))

\* u, lowercased, contains the lowercased URL keyword
HasKeyword(u) == Includes(ToLowerCase(u), ToLowerCase(req.urlKeyword))

\* C1: whenever the call returns, the returned value is the first URL, in
\* extraction order, of the body of the message selected in that cycle
\* (htmlAsText if non-empty, else text, else empty) whose lowercased form
\* contains the lowercased URL keyword, and a URL is returned in no other way.
C1_ReturnsFirstMatchingUrl ==
    /\ pc = "Succeeded" <=> result # Absent
    /\ pc = "Succeeded" =>
         /\ latest # Absent
         /\ \E k \in 1..Len(emails) : emails[k] = latest[1]
         /\ Body(latest[1]) =
              (IF latest[1].htmlAsText \notin {Absent, Some(<<>>)}
               THEN latest[1].htmlAsText[1]
               ELSE IF latest[1].text \notin {Absent, Some(<<>>)}
               THEN latest[1].text[1]
               ELSE <<>>)
         /\ \E i \in 1..Len(SelectedLinks) :
               /\ result[1] = SelectedLinks[i]
               /\ HasKeyword(SelectedLinks[i])
               /\ \A j \in 1..(i - 1) : ~HasKeyword(SelectedLinks[j])

\* a call that returned a URL that is not the first URL of the body, taken
\* from htmlAsText while text holds a URL too
C1_Witness ==
    /\ pc = "Succeeded"
    /\ Len(SelectedLinks) > 1
    /\ result[1] # SelectedLinks[1]
    /\ latest[1].text # Absent

\* C2 as stated: every execution ends Succeeded or TimedOut, whatever the
\* gateway does.
C2_OnlySucceededOrTimedOut == Ended => pc \in {"Succeeded", "TimedOut"}

\* C2 as amended: every execution ends in exactly one of Succeeded (a URL is
\* returned), TimedOut (the timeout failure is raised) or Failed (the failure
\* of a gateway query is raised).
C2_ThreeTerminalOutcomes ==
    /\ Ended => pc \in {"Succeeded", "TimedOut", "Failed"}
    /\ pc = "Succeeded" => result # Absent /\ error = NoError
    /\ pc = "TimedOut" => result = Absent /\ error.kind = "Timeout"
    /\ pc = "Failed" =>
         /\ result = Absent
         /\ error.kind \in {"GatewayUnavailable", "MailboxNotFound"}

\* a call ended by a gateway failure after an earlier cycle had gone through
C2_Witness == pc = "Failed" /\ waitUntil > startedAt /\ now < deadline

\* C3: if every gateway query returns and the clock advances, the call
\* eventually terminates; with no matching URL and no gateway failure it ends
\* with the timeout.
C3_EventuallyTerminates ==
    /\ <>(pc \in {"Succeeded", "TimedOut", "Failed"})
    /\ [](pc \notin {"Succeeded", "Failed"}) => <>(pc = "TimedOut")

\* a call that timed out after a cycle without success, the clock having
\* passed a positive timeout
C3_Witness ==
    /\ pc = "TimedOut"
    /\ req.timeoutSeconds > 0
    /\ waitUntil > startedAt
    /\ now >= deadline

\* whole seconds between entry and now
ElapsedSeconds == (now - startedAt) \div MsPerSecond

\* C4 as stated: the timeout failure carries the elapsed seconds, the URL
\* keyword, the recipient and the subject keyword.
C4_CarriesElapsedSeconds ==
    pc = "TimedOut" =>
        /\ error.seconds = ElapsedSeconds
        /\ error.urlKeyword = req.urlKeyword
        /\ error.recipient = req.recipientEmail
        /\ error.subject = req.subjectKeyword

\* C4 as amended: the timeout failure carries the timeoutSeconds argument
\* (which the time spent is never less than), the URL keyword, the recipient
\* and the subject keyword, each as passed.
C4_CarriesTimeoutSeconds ==
    pc = "TimedOut" =>
        /\ error.kind = "Timeout"
        /\ error.seconds = req.timeoutSeconds
        /\ error.seconds * MsPerSecond <= now - startedAt
        /\ error.urlKeyword = req.urlKeyword
        /\ error.recipient = req.recipientEmail
        /\ error.subject = req.subjectKeyword

\* a timeout raised seconds later than the positive timeoutSeconds it carries
C4_Witness ==
    /\ pc = "TimedOut"
    /\ req.timeoutSeconds > 0
    /\ ElapsedSeconds > error.seconds

\* what a cycle on the answer es yields for the request r, from es and r alone
CycleMatch(es, r) ==
    Match(Latest(Filter(es, normalizeGmail(r.recipientEmail),
                        ToLowerCase(r.subjectKeyword))),
          ToLowerCase(r.urlKeyword))

C6_MailboxNotFoundIsFatal ==
    [][ /\ (req.mailbox \notin available /\ gw.status = "pending") =>
             gw'.status # "resolved"
        /\ (gw.status = "rejected" /\ gw.failure = "MailboxNotFound"
              /\ <<pc, gw>>' # <<pc, gw>>) =>
             /\ pc' = "Failed"
             /\ error' = GatewayError("MailboxNotFound")
             /\ UNCHANGED <<now, waitUntil, emails, result, store, sessions, call>>
        /\ pc = "Failed" => pc' = "Failed" /\ gw' = Idle
      ]_vars

\* a poll ended by MailboxNotFound before its deadline
C6_Witness ==
    /\ pc = "Failed"
    /\ error.kind = "MailboxNotFound"
    /\ now < deadline

-----------------------------------------------------------------------------
(* Properties of the choice of latest *)

\* the effective timestamp of a message: internalDateMs if present and not
\* zero, else date, else zero
Effective(m) ==
    IF m.internalDateMs # Absent /\ m.internalDateMs[1] # 0
    THEN m.internalDateMs[1]
    ELSE IF m.date # Absent THEN m.date[1] ELSE 0

\* the places of the list whose message has the greatest effective timestamp
Greatest(list) ==
    {i \in 1..Len(list) :
        \A j \in 1..Len(list) : Effective(list[i]) >= Effective(list[j])}

SortKey(m) == <<OrElse(m.internalDateMs, 0), OrElse(m.date, 0)>>

\* key k is not after key l in the order greatest first
NotAfter(k, l) == k[1] > l[1] \/ (k[1] = l[1] /\ k[2] >= l[2])

\* the places of the list whose message no other message goes before
Foremost(list) ==
    {i \in 1..Len(list) :
        \A j \in 1..Len(list) : NotAfter(SortKey(list[i]), SortKey(list[j]))}

-----------------------------------------------------------------------------
(* Properties of the filter callback *)

\* the lowercased subject of e contains the lowercased subject keyword
SubjectHas(e, keyword) ==
    Includes(ToLowerCase(OrElse(e.subject, <<>>)), ToLowerCase(keyword))

\* the lowercased To header of e contains the normalized recipient
HeaderHas(e, recipient) ==
    Includes(ToLowerCase(OrElse(e.to, <<>>)), normalizeGmail(recipient))

\* some address of the list, normalized, is the normalized recipient
ListHas(list, recipient) ==
    \E i \in 1..Len(list) : normalizeGmail(list[i]) = normalizeGmail(recipient)

\* C9 as stated: a message is a candidate if and only if its subject has the
\* keyword and its address list, each address normalized, contains the
\* normalized recipient or its To header contains it.
C9_QualifiesByAddressList ==
    pc = "filtered" =>
        (ret[1] <=> /\ SubjectHas(arg[1], arg[3])
                    /\ \/ ListHas(arg[1].toAddresses, arg[2])
                       \/ HeaderHas(arg[1], arg[2]))

\* C9: a message is a candidate if and only if its lowercased subject
\* contains the lowercased subject keyword and (the normalized addresses of
\* its address list, or when that list is empty the normalized pieces of its
\* To header split at commas and white space, contain the normalized
\* recipient, or its lowercased To header contains the normalized recipient).
C9_QualifiesByListOrHeaderPieces ==
    pc = "filtered" =>
        (ret[1] <=>
           /\ SubjectHas(arg[1], arg[3])
           /\ \/ ListHas(arg[1].toAddresses, arg[2])
              \/ /\ arg[1].toAddresses = <<>>
                 /\ arg[1].to # Absent
                 /\ ListHas(SplitList(arg[1].to[1]), arg[2])
              \/ HeaderHas(arg[1], arg[2]))

\* a candidate by a piece of its To header alone: no address list, and the
\* header does not contain the normalized recipient
C9_Witness ==
    /\ pc = "filtered"
    /\ ret = <<TRUE>>
    /\ arg[1].toAddresses = <<>>
    /\ arg[2] = JanePlusTest
    /\ ~HeaderHas(arg[1], arg[2])

-----------------------------------------------------------------------------
(* Properties of normalizeGmail *)

\* the number of places of str that hold c
Count(str, c) == Cardinality({i \in 1..Len(str) : str[i] = c})

\* C10: normalizeGmail(normalizeGmail(a)) = normalizeGmail(a) for every
\* address a, also with no "@", several "@", several "+", white space around
\* it or mixed case.
C10_NormalizeIdempotent ==
    pc = "normalized" => ret[2] = ret[1]

\* an address of mixed case with two "+" before the "@" of a Google domain,
\* which normalizeGmail changed
C10_Witness ==
    /\ pc = "normalized"
    /\ Count(arg[1], "+") >= 2
    /\ Count(arg[1], "@") >= 1
    /\ ToLowerCase(arg[1]) # arg[1]
    /\ Len(ret[1]) < Len(arg[1])
    /\ Includes(ret[1], GmailCom) \/ Includes(ret[1], GooglemailCom)

\* the place of the first "@" of str, 0 when it has none
FirstAt(str) ==
    The({ IF {i \in 1..Len(s) : s[i] = "@"} = {} THEN 0
          ELSE SetMin({i \in 1..Len(s) : s[i] = "@"})
          : s \in {str} })

\* the address cut at its first "@" only: the domain is all that follows it
NormalizedAtFirstAt(addr) ==
    The({ IF FirstAt(lower) = 0 THEN lower
          ELSE LET local  == SubSeq(lower, 1, FirstAt(lower) - 1)
                   domain == SubSeq(lower, FirstAt(lower) + 1, Len(lower))
                   plus   == {i \in 1..Len(local) : local[i] = "+"}
               IN  IF domain = GmailCom \/ domain = GooglemailCom
                   THEN (IF plus = {} THEN local
                         ELSE SubSeq(local, 1, SetMin(plus) - 1))
                        \o At \o domain
                   ELSE lower
          : lower \in {ToLowerCase(Trim(addr))} })

\* C11: normalizeGmail trims and lowercases its input, splits it at the first
\* "@" into local part and domain, the domain being everything after the
\* first "@", strips the local part from its first "+" on only when the
\* domain is exactly gmail.com or googlemail.com, and returns every other
\* input trimmed and lowercased.
C11_SplitsAtFirstAt ==
    pc \in {"once", "normalized"} => ret[1] = NormalizedAtFirstAt(arg[1])

\* "a@gmail.com@" comes back as "a@gmail.com": the address is taken for one
\* of gmail.com and what follows the second "@" is dropped
C11_Witness ==
    /\ pc = "once"
    /\ arg[1] = <<"a">> \o At \o GmailCom \o At
    /\ ret[1] = <<"a">> \o At \o GmailCom

-----------------------------------------------------------------------------
(* extractLinks on texts of its own *)

\* the most pieces a text is put together from
MaxPieces == 4

UrlA == <<"h","t","t","p",":","/","/","a">>

UrlB == <<"H","t","t","p","S",":","/","/","b">>

\* stands for the one character U+201D, a right curly quote
CurlyQuote == "rdquo"

TextAtoms ==
    {UrlA, UrlB, <<")">>, <<".">>, <<",">>, <<" ">>, <<"x">>, <<"\"">>,
     <<CurlyQuote>>}

Texts == {Flatten(pieces) : pieces \in SeqsUpTo(TextAtoms, MaxPieces)}

\* the values m of the successive re.exec(src): where each match starts and
\* its text m[0]
RECURSIVE Execs(_, _)
Execs(src, from) ==
    The({ IF i > Len(s) THEN <<>>
          ELSE The({ IF e = 0 THEN Execs(s, i + 1)
                     ELSE <<[start |-> i, text |-> SubSeq(s, i, e)]>>
                          \o Execs(s, e + 1)
                     : e \in {MatchEnd(s, i)} })
          : s \in {src}, i \in {from} })

InitExtract ==
    /\ EngineAtRest
    /\ pc = "extract"
    /\ arg \in {<<text>> : text \in Texts}
    /\ ret = <<>>

\* extractLinks(src): ret[1] is what it returns, ret[2] the matches of its loop
Extract ==
    /\ pc = "extract"
    /\ ret' = <<extractLinks(arg[1]), Execs(arg[1], 1)>>
    /\ pc' = "extracted"
    /\ UNCHANGED <<req, available, now, startedAt, deadline, targetRecipient,
                   subjectNeedle, urlNeedle, waitUntil, gw, emails, latest,
                   result, error, arg,
                   store, sessions, call>>

NextExtract == Extract

SpecExtract == InitExtract /\ [][NextExtract]_vars

-----------------------------------------------------------------------------
(* Properties of extractLinks *)

\* closing parenthesis, comma, period, semicolon, closing bracket, closing
\* angle bracket, straight quotes
ClosingChars == {")", ",", ".", ";", "]", ">", "\"", "'"}

\* text without the run of closing characters it ends with
WithoutTrailingRun(text) ==
    The({ LET last == {i \in 1..Len(t) : t[i] \notin ClosingChars}
          IN  IF last = {} THEN <<>> ELSE SubSeq(t, 1, SetMax(last))
          : t \in {text} })

\* the first match of the loop that gives the URL u
FirstMatchOf(u) ==
    SetMin({k \in 1..Len(ret[2]) : WithoutTrailingRun(ret[2][k].text) = u})

\* C12: extractLinks returns a list with no two equal elements, whose
\* elements are the stripped matches in the order of their first appearance
\* in the text; a text with no URL, the empty string too, gives the empty
\* list, and every text gives a list.
C12_DistinctInOrderOfAppearance ==
    pc = "extracted" =>
        /\ ret[1] \in Seq(Seq(STRING))
        /\ \A p, q \in 1..Len(ret[1]) : p # q => ret[1][p] # ret[1][q]
        /\ {ret[1][p] : p \in 1..Len(ret[1])}
             = {WithoutTrailingRun(ret[2][k].text) : k \in 1..Len(ret[2])}
        /\ \A p, q \in 1..Len(ret[1]) :
             p < q => FirstMatchOf(ret[1][p]) < FirstMatchOf(ret[1][q])
        /\ ret[2] = <<>> => ret[1] = <<>>

\* a text with two URLs, returned in the order they appear in, the second of
\* which is matched with closing characters after it
C12_Witness ==
    /\ pc = "extracted"
    /\ Len(ret[2]) = 2
    /\ ret[1] = <<UrlB, UrlA>>
    /\ ret[2][2].text # UrlA

\* C13 as stated: no returned URL ends with a closing character, straight
\* quote or curly quote.
C13_NoClosingCharOrCurlyQuoteAtEnd ==
    pc = "extracted" =>
        \A p \in 1..Len(ret[1]) :
            /\ ret[1][p] # <<>>
            /\ ret[1][p][Len(ret[1][p])] \notin ClosingChars \cup {CurlyQuote}

\* C13: every returned URL has lost the whole run of closing parentheses,
\* commas, periods, semicolons, closing brackets, closing angle brackets and
\* straight quotes its match ended with (a curly quote is a character of the
\* URL like any other), and matches that differ only in that run are
\* returned as one URL.
C13_WholeTrailingRunRemoved ==
    pc = "extracted" =>
        /\ \A p \in 1..Len(ret[1]) :
              /\ ret[1][p] # <<>>
              /\ ret[1][p][Len(ret[1][p])] \notin ClosingChars
        /\ \A k \in 1..Len(ret[2]) :
              Cardinality({p \in 1..Len(ret[1]) :
                  ret[1][p] = WithoutTrailingRun(ret[2][k].text)}) = 1

\* two matches that differ only in the closing character the first ends
\* with, returned as one URL
C13_Witness ==
    /\ pc = "extracted"
    /\ Len(ret[2]) = 2
    /\ ret[2][1].text = UrlA \o <<".">>
    /\ ret[2][2].text = UrlA
    /\ ret[1] = <<UrlA>>

\* the length of the scheme that str has at i, in any letter case: 7 for
\* http://, 8 for https://, 0 for neither
SchemeAt(str, at) ==
    The({ IF i + 6 <= Len(s)
             /\ ToLowerCase(SubSeq(s, i, i + 6)) = Http \o ColonSlashSlash
          THEN 7
          ELSE IF i + 7 <= Len(s)
                  /\ ToLowerCase(SubSeq(s, i, i + 7))
                       = Http \o <<"s">> \o ColonSlashSlash
          THEN 8
          ELSE 0
          : s \in {str}, i \in {at} })

\* the place of the last character of match k
MatchLast(k) == ret[2][k].start + Len(ret[2][k].text) - 1

\* not white space, not an angle bracket, not a quote
IsStatedTokenChar(c) == ~IsSpace(c) /\ c \notin {"<", ">", "\"", "'"}

\* C14 as stated: each match is the scheme followed by the maximal run of
\* characters that are not white space, angle brackets or quotes, so that a
\* closing parenthesis followed by further URL characters does not end it.
C14_MaximalRunKeepsParenthesis ==
    pc = "extracted" =>
        \A k \in 1..Len(ret[2]) :
            /\ SchemeAt(arg[1], ret[2][k].start) > 0
            /\ Len(ret[2][k].text) > SchemeAt(arg[1], ret[2][k].start)
            /\ \A j \in ret[2][k].start..MatchLast(k) :
                  IsStatedTokenChar(arg[1][j])
            /\ \/ MatchLast(k) = Len(arg[1])
               \/ ~IsStatedTokenChar(arg[1][MatchLast(k) + 1])

\* not white space, not an angle bracket, not a straight quote, not a closing
\* parenthesis
IsTokenChar(c) == ~IsSpace(c) /\ c \notin {"<", ">", "\"", "'", ")"}

\* place i is inside or at the end of a match that starts before it
InsideEarlierMatch(i) ==
    \E k \in 1..Len(ret[2]) : ret[2][k].start < i /\ i <= MatchLast(k)

\* a token can start at i: a scheme not preceded by a letter, a digit or an
\* underscore, and followed by a character of a token
CanStartAt(str, at) ==
    The({ /\ SchemeAt(s, i) > 0
          /\ i = 1 \/ ~IsWord(s[i - 1])
          /\ i + SchemeAt(s, i) <= Len(s)
          /\ IsTokenChar(s[i + SchemeAt(s, i)])
          : s \in {str}, i \in {at} })

\* C14: the matches are, from left to right, the tokens that start outside
\* the matches before them with the scheme http:// or https:// in any letter
\* case, not preceded by a letter, a digit or an underscore, and go on over
\* the maximal non-empty run of characters that are not white space, angle
\* brackets, straight quotes or closing parentheses: a closing parenthesis
\* ends the token, and what follows it is not part of the URL.
C14_MaximalRunEndsAtParenthesis ==
    pc = "extracted" =>
        /\ \A k \in 1..Len(ret[2]) :
              /\ CanStartAt(arg[1], ret[2][k].start)
              /\ ret[2][k].text
                   = SubSeq(arg[1], ret[2][k].start, MatchLast(k))
              /\ \A j \in ret[2][k].start..MatchLast(k) :
                    IsTokenChar(arg[1][j])
              /\ \/ MatchLast(k) = Len(arg[1])
                 \/ ~IsTokenChar(arg[1][MatchLast(k) + 1])
              /\ k > 1 => MatchLast(k - 1) < ret[2][k].start
        /\ \A i \in 1..Len(arg[1]) :
              (CanStartAt(arg[1], i) /\ ~InsideEarlierMatch(i)) =>
                  \E k \in 1..Len(ret[2]) : ret[2][k].start = i

\* a URL with a closing parenthesis inside it: the match and the returned URL
\* end before the parenthesis, and the "x" after it is lost
C14_Witness ==
    /\ pc = "extracted"
    /\ arg[1] = UrlA \o <<")", "x">>
    /\ Len(ret[2]) = 1
    /\ ret[2][1].text = UrlA
    /\ ret[1] = <<UrlA>>

-----------------------------------------------------------------------------
(* Properties of the deadline *)

\* C15: the deadline is computed once, on entry, as the entry time plus
\* timeoutSeconds; a gateway query is started only at a time strictly before
\* it; the deadline is checked again after every interval wait; and with
\* timeoutSeconds <= 0 the call fails with the timeout and no query is made.
C15_QueriesOnlyBeforeDeadline ==
    [][ /\ (pc = "entry" /\ pc' # "entry") =>
             deadline' = now + req.timeoutSeconds * MsPerSecond
        /\ pc # "entry" => deadline' = deadline
        /\ (gw.status # "pending" /\ gw'.status = "pending") =>
             /\ now' = now
             /\ now < deadline'
        /\ (pc = "waiting" /\ pc' # "waiting") =>
             /\ now >= waitUntil
             /\ IF now < deadline
                THEN pc' = "fetching" /\ gw' = Pending
                ELSE pc' = "TimedOut" /\ gw' = Idle
        /\ req.timeoutSeconds <= 0 =>
             /\ gw' = Idle
             /\ pc' \in {"entry", "TimedOut"}
             /\ pc' = "TimedOut" => error' = TimeoutError(req)
      ]_vars

\* a second query, in flight: begun after an interval wait and before the
\* deadline
C15_Witness ==
    /\ pc = "fetching"
    /\ gw = Pending
    /\ waitUntil > startedAt
    /\ startedAt < deadline
    /\ now < deadline

-----------------------------------------------------------------------------
(* fetchEmails of utils/gmailClient.ts, await by await, against a mail store *)

\* the since-window a filter asks for
SinceWindowMs == 5000

\* received inside the since-window, and outside it
RecentMs == 0 - 100

LongAgoMs == 0 - 9000

\* a message of the store: its flag \Seen, its internal date, what
\* client.download and simpleParser make of it, and the parsed fields
Stored(seen, received, content, parsed) ==
    [uid |-> 0, seen |-> seen, received |-> received, content |-> content,
     parsed |-> parsed]

ParsedVerify ==
    Msg(Some(SubjectPleaseVerify), <<JaneAddress>>, Some(JaneHeader),
        Absent, Some(LateMs), Absent, Some(TextConfirm))

ParsedHello ==
    Msg(Some(SubjectHello), <<JaneAddress>>, Absent,
        Absent, Some(LateMs), Some(HtmlHello), Absent)

\* unread or read, recent or old, and the three ways a download ends:
\* "ok", "null" (no content) and "broken" (download or parser throws)
StoredKinds ==
    { Stored(FALSE, RecentMs, "ok", ParsedVerify),
      Stored(TRUE, RecentMs, "ok", ParsedVerify),
      Stored(FALSE, LongAgoMs, "ok", ParsedVerify),
      Stored(FALSE, RecentMs, "ok", ParsedHello),
      Stored(FALSE, RecentMs, "null", ParsedVerify),
      Stored(FALSE, RecentMs, "broken", ParsedVerify) }

\* the most messages in the mailbox
MaxStore == 2

Stores == {WithUids(xs) : xs \in SeqsUpTo(StoredKinds, MaxStore)}

\* the greatest whole limit a filter asks for
MaxLimit == 2

\* limit is a number, not only a whole one: the model counts a limit in
\* parts of which LimitScale make one
LimitScale == 2

\* the whole number n as a limit
Whole(n) == n * LimitScale

\* the limit 0.5
HalfLimit == LimitScale \div 2

\* the integer part of the number x >= 0, as slice takes its end
Trunc(x) == x \div LimitScale

\* results.length >= limit
LimitReached(length, limit) == Whole(length) >= limit

\* the EmailFilter arguments fetchEmails is called with
Filters ==
    [mailbox         : {"INBOX"},
     unreadOnly      : BOOLEAN,
     sinceMs         : {0, SinceWindowMs},
     limit           : {Whole(n) : n \in 0..MaxLimit} \cup {HalfLimit},
     markSeen        : BOOLEAN,
     sortNewestFirst : BOOLEAN,
     subjectContains : {Absent, Some(VerifyKeyword)}]
    \cup
    [mailbox         : {"inbox"},
     unreadOnly      : {FALSE},
     sinceMs         : {0},
     limit           : {Whole(MaxLimit)},
     markSeen        : {FALSE},
     sortNewestFirst : {TRUE},
     subjectContains : {Absent}]

\* searchQuery without seen = false for unreadOnly
QueryAnySeen(unreadOnly, since) == [seen |-> "any", since |-> since]

\* searchQuery: seen is "any" when the query has no seen key
Query(unreadOnly, since) ==
    [seen |-> IF unreadOnly THEN "unseen" ELSE "any", since |-> since]

\* the message m is one the query asks for
Matches(m, query) ==
    /\ query.seen = "unseen" => ~m.seen
    /\ query.since # Absent => m.received >= query.since[1]

\* client.search(query, { uid: true }) on a server that answers: the UIDs of
\* the messages the query asks for, in ascending order
RECURSIVE SearchFrom(_, _, _)
SearchFrom(mailbox, from, query) ==
    IF from > Len(mailbox) THEN <<>>
    ELSE (IF Matches(mailbox[from], query)
          THEN <<mailbox[from].uid>> ELSE <<>>)
         \o SearchFrom(mailbox, from + 1, query)

\* what Array.isArray(uids) ? uids : [] can be: the UIDs found, or [] for an
\* answer that is no array
SearchAnswers(mailbox, query) == {SearchFrom(mailbox, 1, query), <<>>}

\* the array as it is
Unreversed(array) == array

\* [...uidsArr].reverse()
Reverse(array) == [i \in 1..Len(array) |-> array[Len(array) + 1 - i]]

\* Math.max(a, b)
Max(a, b) == IF a >= b THEN a ELSE b

\* array.slice(0, n) for n >= 0
SliceTo(array, n) == SubSeq(array, 1, IF n < Len(array) THEN n ELSE Len(array))

\* const ordered
Ordered(uidsArr, filter) ==
    SliceTo(IF filter.sortNewestFirst THEN Reverse(uidsArr) ELSE uidsArr,
            Trunc(Max(filter.limit * 3, filter.limit)))

\* .map((v) => (v?.address ?? "").toString().trim()).filter(Boolean)
ToAddressList(list) ==
    SelectSeq([i \in 1..Len(list) |-> Trim(list[i])], LAMBDA a : a # <<>>)

\* the EmailLite pushed for the message uid
EmailLite(uid, parsed) ==
    [Msg(Some(OrElse(parsed.subject, <<>>)), ToAddressList(parsed.toAddresses),
         Some(OrElse(parsed.to, <<>>)), Absent, parsed.date,
         parsed.htmlAsText, parsed.text) EXCEPT !.uid = uid]

\* okSubject: fromContains and bodyIncludes are not given
OkSubject(parsed, filter) ==
    IF filter.subjectContains = Absent \/ filter.subjectContains = Some(<<>>)
    THEN TRUE
    ELSE Includes(ToLowerCase(OrElse(parsed.subject, <<>>)),
                  ToLowerCase(filter.subjectContains[1]))

\* a retry although the searches before it found messages
NeedsRetryAlways(uidsArr, wanted) == wanted

\* uidsArr.length === 0 && sinceDate, uidsArr.length === 0 && unreadOnly
NeedsRetry(uidsArr, wanted) == Len(uidsArr) = 0 /\ wanted

\* the error of one message ends the call
Aborted(c) == [c EXCEPT !.failure = "GatewayUnavailable", !.pc = "logout"]

\* continue, and the catch of the loop body: on to the next UID
Skipped(c) == [c EXCEPT !.next = @ + 1]

\* the session is left open
LeftOpen(n) == n

\* client.logout() ends the session
LoggedOut(n) == n - 1

\* const { ... } = filter; const client = buildClient()
Begin ==
    /\ gw.status = "pending"
    /\ call.pc \in {"idle", "returned", "threw"}
    /\ call' = [NoCall EXCEPT !.pc = "connect"]
    /\ UNCHANGED <<pc, req, available, now, startedAt, deadline,
                   targetRecipient, subjectNeedle, urlNeedle, waitUntil, gw,
                   emails, latest, result, error, arg, ret, store, sessions>>

\* await client.connect()
Connect ==
    /\ call.pc = "connect"
    /\ sessions' = sessions + 1
    /\ call' = [call EXCEPT !.pc = "list"]
    /\ UNCHANGED <<pc, req, available, now, startedAt, deadline,
                   targetRecipient, subjectNeedle, urlNeedle, waitUntil, gw,
                   emails, latest, result, error, arg, ret, store>>

\* client.connect() rejects: the throw of the catch, outside the try
ConnectFails ==
    /\ call.pc = "connect"
    /\ call' = [call EXCEPT !.pc = "threw", !.failure = "GatewayUnavailable"]
    /\ gw' = [status |-> "rejected", failure |-> "GatewayUnavailable"]
    /\ UNCHANGED <<pc, req, available, now, startedAt, deadline,
                   targetRecipient, subjectNeedle, urlNeedle, waitUntil,
                   emails, latest, result, error, arg, ret, store, sessions>>

\* client.list() and the test of available.includes(mailbox)
ListMailboxes ==
    /\ call.pc = "list"
    /\ call' = IF arg.mailbox \in available
               THEN [call EXCEPT !.pc = "open"]
               ELSE [call EXCEPT !.pc = "logout",
                                 !.failure = "MailboxNotFound"]
    /\ UNCHANGED <<pc, req, available, now, startedAt, deadline,
                   targetRecipient, subjectNeedle, urlNeedle, waitUntil, gw,
                   emails, latest, result, error, arg, ret, store, sessions>>

\* await client.mailboxOpen(mailbox, { readOnly: !markSeen })
MailboxOpen ==
    /\ call.pc = "open"
    /\ call' = [call EXCEPT !.pc = "search"]
    /\ UNCHANGED <<pc, req, available, now, startedAt, deadline,
                   targetRecipient, subjectNeedle, urlNeedle, waitUntil, gw,
                   emails, latest, result, error, arg, ret, store, sessions>>

\* client.list, client.mailboxOpen or client.search rejects inside the try
ServerFails ==
    /\ call.pc \in {"list", "open", "search", "retryNoSince", "retryAll"}
    /\ call.pc = "retryNoSince" =>
          NeedsRetry(call.uidsArr, call.sinceDate # Absent)
    /\ call.pc = "retryAll" => NeedsRetry(call.uidsArr, arg.unreadOnly)
    /\ call' = [call EXCEPT !.pc = "logout",
                            !.failure = "GatewayUnavailable"]
    /\ UNCHANGED <<pc, req, available, now, startedAt, deadline,
                   targetRecipient, subjectNeedle, urlNeedle, waitUntil, gw,
                   emails, latest, result, error, arg, ret, store, sessions>>

\* Attempt 1: as requested
SearchAsRequested ==
    /\ call.pc = "search"
    /\ \E sinceDate \in {IF arg.sinceMs # 0 THEN Some(now - arg.sinceMs)
                         ELSE Absent} :
       \E answer \in SearchAnswers(store, Query(arg.unreadOnly, sinceDate)) :
          call' = [call EXCEPT
                     !.pc = "retryNoSince",
                     !.sinceDate = sinceDate,
                     !.searches = <<Query(arg.unreadOnly, sinceDate)>>,
                     !.uidsArr = answer]
    /\ UNCHANGED <<pc, req, available, now, startedAt, deadline,
                   targetRecipient, subjectNeedle, urlNeedle, waitUntil, gw,
                   emails, latest, result, error, arg, ret, store, sessions>>

\* Attempt 2: if nothing and we used SINCE, retry without SINCE
RetryNoSince ==
    /\ call.pc = "retryNoSince"
    /\ IF NeedsRetry(call.uidsArr, call.sinceDate # Absent)
       THEN \E retryArr \in SearchAnswers(store,
                                          Query(arg.unreadOnly, Absent)) :
               call' = [call EXCEPT
                          !.pc = "retryAll",
                          !.searches =
                             Append(@, Query(arg.unreadOnly, Absent)),
                          !.uidsArr =
                             IF Len(retryArr) > 0 THEN retryArr ELSE @]
       ELSE call' = [call EXCEPT !.pc = "retryAll"]
    /\ UNCHANGED <<pc, req, available, now, startedAt, deadline,
                   targetRecipient, subjectNeedle, urlNeedle, waitUntil, gw,
                   emails, latest, result, error, arg, ret, store, sessions>>

\* Attempt 3: if still nothing and unreadOnly was true, retry without it
RetryAll ==
    /\ call.pc = "retryAll"
    /\ IF NeedsRetry(call.uidsArr, arg.unreadOnly)
       THEN \E retryAllArr \in SearchAnswers(store, Query(FALSE, Absent)) :
               call' = [call EXCEPT
                          !.pc = "order",
                          !.searches = Append(@, Query(FALSE, Absent)),
                          !.uidsArr =
                             IF Len(retryAllArr) > 0 THEN retryAllArr ELSE @]
       ELSE call' = [call EXCEPT !.pc = "order"]
    /\ UNCHANGED <<pc, req, available, now, startedAt, deadline,
                   targetRecipient, subjectNeedle, urlNeedle, waitUntil, gw,
                   emails, latest, result, error, arg, ret, store, sessions>>

\* const ordered, const results = []
Order ==
    /\ call.pc = "order"
    /\ call' = [call EXCEPT !.pc = "loop",
                            !.ordered = Ordered(call.uidsArr, arg),
                            !.next = 1,
                            !.results = <<>>]
    /\ UNCHANGED <<pc, req, available, now, startedAt, deadline,
                   targetRecipient, subjectNeedle, urlNeedle, waitUntil, gw,
                   emails, latest, result, error, arg, ret, store, sessions>>

\* the message with the UID uid: UIDs are places of the store
ByUid(uid) == store[uid]

\* one turn of for (const uid of ordered): the download, the parser, the
\* client-side filter, messageFlagsAdd when markSeen is set (it may fail, and
\* its failure is caught), the push and the break
ProcessMessage ==
    /\ call.pc = "loop"
    /\ call.next <= Len(call.ordered)
    /\ \E uid \in {call.ordered[call.next]} :
          IF ByUid(uid).content = "broken"
          THEN call' = Skipped(call) /\ store' = store
          ELSE IF \/ ByUid(uid).content = "null"
                  \/ ~OkSubject(ByUid(uid).parsed, arg)
          THEN call' = [call EXCEPT !.next = @ + 1] /\ store' = store
          ELSE /\ \E flagged \in {FALSE, arg.markSeen} :
                    store' = [store EXCEPT ![uid].seen = @ \/ flagged]
               /\ call' = [call EXCEPT
                             !.results =
                                Append(@, EmailLite(uid, ByUid(uid).parsed)),
                             !.next = @ + 1,
                             !.pc = IF LimitReached(Len(call.results) + 1,
                                                    arg.limit)
                                    THEN "logout" ELSE "loop"]
    /\ UNCHANGED <<pc, req, available, now, startedAt, deadline,
                   targetRecipient, subjectNeedle, urlNeedle, waitUntil, gw,
                   emails, latest, result, error, arg, ret, sessions>>

\* the loop is through: return results
LoopEnds ==
    /\ call.pc = "loop"
    /\ call.next > Len(call.ordered)
    /\ call' = [call EXCEPT !.pc = "logout"]
    /\ UNCHANGED <<pc, req, available, now, startedAt, deadline,
                   targetRecipient, subjectNeedle, urlNeedle, waitUntil, gw,
                   emails, latest, result, error, arg, ret, store, sessions>>

\* finally: await client.logout().catch(() => {}), and then the promise of
\* the call is settled with the results or with the error thrown in the try
Logout ==
    /\ call.pc = "logout"
    /\ sessions' = LoggedOut(sessions)
    /\ IF call.failure = "none"
       THEN /\ call' = [call EXCEPT !.pc = "returned"]
            /\ gw' = [status |-> "resolved", failure |-> "none"]
            /\ emails' = call.results
       ELSE /\ call' = [call EXCEPT !.pc = "threw"]
            /\ gw' = [status |-> "rejected", failure |-> call.failure]
            /\ emails' = emails
    /\ UNCHANGED <<pc, req, available, now, startedAt, deadline,
                   targetRecipient, subjectNeedle, urlNeedle, waitUntil,
                   latest, result, error, arg, ret, store>>

FetchEmails ==
    \/ Begin
    \/ Connect
    \/ ConnectFails
    \/ ListMailboxes
    \/ MailboxOpen
    \/ ServerFails
    \/ SearchAsRequested
    \/ RetryNoSince
    \/ RetryAll
    \/ Order
    \/ ProcessMessage
    \/ LoopEnds
    \/ Logout

\* one call of fetchEmails by a caller that awaits it, at the time 0
InitGateway ==
    /\ pc = "fetching"
    /\ req = [recipientEmail |-> <<>>, subjectKeyword |-> <<>>,
              urlKeyword |-> <<>>, timeoutSeconds |-> 0,
              pollIntervalMs |-> 0, mailbox |-> "INBOX"]
    /\ available = {"INBOX", "[Gmail]/Spam"}
    /\ now = 0
    /\ startedAt = 0
    /\ deadline = 0
    /\ targetRecipient = <<>>
    /\ subjectNeedle = <<>>
    /\ urlNeedle = <<>>
    /\ waitUntil = 0
    /\ gw = Pending
    /\ emails = <<>>
    /\ latest = Absent
    /\ result = Absent
    /\ error = NoError
    /\ arg \in Filters
    /\ ret = <<>>
    /\ store \in Stores
    /\ sessions = 0
    /\ call = NoCall

NextGateway == FetchEmails

SpecGateway == InitGateway /\ [][NextGateway]_vars

-----------------------------------------------------------------------------
(* Properties of fetchEmails *)

\* the query the step from call to call' has sent to the server
Sent == call'.searches[Len(call'.searches)]

\* C16: the searches of one call follow a fixed order: first the search as
\* requested; a search without SINCE, still for unread messages if asked,
\* only if the first found nothing and a since-window was given; a search
\* with no constraint only if there is still nothing and unreadOnly was
\* asked; a later search never replaces UIDs found before it, and there are
\* at most three searches.
C16_SearchFallbackOrder ==
    [][ /\ Len(call'.searches) <= 3
        /\ call.searches # call'.searches =>
             \/ call'.searches = <<>>
             \/ /\ call'.searches = Append(call.searches, Sent)
                /\ \/ /\ call.searches = <<>>
                      /\ Sent.seen = (IF arg.unreadOnly THEN "unseen" ELSE "any")
                      /\ Sent.since = (IF arg.sinceMs # 0
                                       THEN Some(now - arg.sinceMs)
                                       ELSE Absent)
                   \/ /\ Len(call.searches) = 1
                      /\ call.uidsArr = <<>>
                      /\ arg.sinceMs # 0
                      /\ Sent.seen = (IF arg.unreadOnly THEN "unseen" ELSE "any")
                      /\ Sent.since = Absent
                   \/ /\ Len(call.searches) \in {1, 2}
                      /\ call.uidsArr = <<>>
                      /\ arg.unreadOnly
                      /\ Sent = [seen |-> "any", since |-> Absent]
                      /\ Len(call.searches) = 2 <=> arg.sinceMs # 0
        /\ (call.uidsArr # <<>> /\ call'.pc # "connect") =>
             call'.uidsArr = call.uidsArr
      ]_vars

\* a call that has returned what its third search found
C16_Witness ==
    /\ call.pc = "returned"
    /\ Len(call.searches) = 3
    /\ call.searches[3] = [seen |-> "any", since |-> Absent]
    /\ call.uidsArr # <<>>
    /\ emails # <<>>

\* the UIDs the last search that found any has found, newest first when
\* sortNewestFirst is set
OrderedUids ==
    IF arg.sortNewestFirst
    THEN [i \in 1..Len(call.uidsArr) |->
             call.uidsArr[Len(call.uidsArr) + 1 - i]]
    ELSE call.uidsArr

\* the place of the UID uid in OrderedUids, 0 when it is not there
PlaceOf(uid) ==
    IF \E i \in 1..Len(OrderedUids) : OrderedUids[i] = uid
    THEN CHOOSE i \in 1..Len(OrderedUids) : OrderedUids[i] = uid
    ELSE 0

\* the UIDs of the returned messages are a subsequence of OrderedUids
InSearchOrder ==
    /\ \A p \in 1..Len(emails) : PlaceOf(emails[p].uid) > 0
    /\ \A p, q \in 1..Len(emails) :
          p < q => PlaceOf(emails[p].uid) < PlaceOf(emails[q].uid)

\* C17 as stated: for every limit >= 0 a call returns at most limit
\* messages, in the order of the search result, reversed when
\* sortNewestFirst is set: their UIDs are a subsequence of that list.
C17_AtMostLimitInSearchOrder ==
    call.pc = "returned" =>
        /\ Whole(Len(emails)) <= arg.limit
        /\ InSearchOrder

\* C17: for every limit >= 0 a call returns at most limit messages when
\* limit is a whole number and at most limit rounded up when it is not (the
\* last returned message is the one that reaches limit), in the order of the
\* search result, reversed when sortNewestFirst is set.
C17_AtMostLimitRoundedUpInSearchOrder ==
    call.pc = "returned" =>
        /\ emails # <<>> => Whole(Len(emails) - 1) < arg.limit
        /\ arg.limit % LimitScale = 0 => Whole(Len(emails)) <= arg.limit
        /\ InSearchOrder

\* the limit 0.5 and a search that found two messages: the newer one is
\* returned, one message for a limit below one
C17_Witness ==
    /\ call.pc = "returned"
    /\ arg.sortNewestFirst
    /\ arg.limit = HalfLimit
    /\ call.uidsArr = <<1, 2>>
    /\ Len(emails) = 1
    /\ emails[1].uid = 2

\* the message uid can be downloaded and parsed and passes the client-side
\* filter
Processable(uid) ==
    /\ store[uid].content = "ok"
    /\ OkSubject(store[uid].parsed, arg)

\* the UIDs of the ordered window without those that fail, have no content
\* or are filtered out
Kept == SelectSeq(call.ordered, Processable)

\* C18: a message whose download or parsing fails does not end the call
\* with an error: the call returns, and what it returns is what the window
\* without that message gives, the processable messages of the window in
\* their order, all of them unless limit is reached before.
C18_FailedMessageIsSkipped ==
    /\ call.failure # "none" => call.ordered = <<>>
    /\ call.pc = "returned" =>
          /\ Len(emails) <= Len(Kept)
          /\ \A i \in 1..Len(emails) : emails[i].uid = Kept[i]
          /\ Len(emails) < Len(Kept) => Whole(Len(emails)) >= arg.limit

\* a call that has returned the message after one that failed
C18_Witness ==
    /\ call.pc = "returned"
    /\ Len(call.ordered) = 2
    /\ store[call.ordered[1]].content = "broken"
    /\ Len(emails) = 1
    /\ emails[1].uid = call.ordered[2]

-----------------------------------------------------------------------------
(* waitAndExtractUrlByRecipient with fetchEmails of utils/gmailClient.ts *)
(* as its gateway, against one mail store                               *)

\* the requests of the polls against the store
PollRequests ==
    [recipientEmail : {JanePlusTest},
     subjectKeyword : {VerifyKeyword},
     urlKeyword     : {VerifyKeyword},
     timeoutSeconds : {MaxTimeoutSeconds},
     pollIntervalMs : {TickMs},
     mailbox        : Mailboxes]

\* the mailbox of the polls: messages for the recipient with the URL asked
\* for, unread or read, recent or old, and messages that cannot be parsed
PollKinds ==
    { Stored(FALSE, RecentMs, "ok", ParsedVerify),
      Stored(TRUE, RecentMs, "ok", ParsedVerify),
      Stored(FALSE, LongAgoMs, "ok", ParsedVerify),
      Stored(FALSE, RecentMs, "broken", ParsedVerify) }

PollStores == {WithUids(xs) : xs \in SeqsUpTo(PollKinds, MaxStore)}

\* the filter waitAndExtractUrlByRecipient passes to fetchEmails for the
\* request r and its options unreadOnly, sinceMs and limit
PollFilter(r, unreadOnly, sinceMs, limit) ==
    [mailbox         |-> r.mailbox,
     unreadOnly      |-> unreadOnly,
     sinceMs         |-> sinceMs,
     limit           |-> limit,
     markSeen        |-> FALSE,
     sortNewestFirst |-> TRUE,
     subjectContains |-> Some(r.subjectKeyword)]

InitPoll ==
    /\ pc = "entry"
    /\ req \in PollRequests
    /\ available = {"INBOX", "[Gmail]/Spam"}
    /\ now = 0
    /\ startedAt = 0
    /\ deadline = 0
    /\ targetRecipient = <<>>
    /\ subjectNeedle = <<>>
    /\ urlNeedle = <<>>
    /\ waitUntil = 0
    /\ gw = Idle
    /\ emails = <<>>
    /\ latest = Absent
    /\ result = Absent
    /\ error = NoError
    /\ \E unreadOnly \in BOOLEAN, sinceMs \in {0, SinceWindowMs},
          limit \in {Whole(1), Whole(MaxLimit)} :
          arg = PollFilter(req, unreadOnly, sinceMs, limit)
    /\ ret = <<>>
    /\ store \in PollStores
    /\ sessions = 0
    /\ call = NoCall

NextPoll ==
    \/ Enter
    \/ FetchEmails
    \/ Resume
    \/ Propagate
    \/ TimerFires
    \/ Tick

SpecPoll == InitPoll /\ [][NextPoll]_vars

-----------------------------------------------------------------------------
(* Properties of the poll with its gateway *)

\* no fetchEmails call is between its begin and its return or throw
NoCallRunning == call.pc \in {"idle", "returned", "threw"}

\* C19: one poll request has at most one session with the mail store open at
\* a time: the session a fetchEmails call has connected is logged out when
\* the call has returned or thrown, with results, with mailbox-not-found or
\* with an error of the server; and a gateway query starts only when no call
\* is running, no session is open, and the call was just entered or the
\* interval wait is over.
C19_OneSessionNoOverlap ==
    /\ [](/\ sessions \in {0, 1}
          /\ NoCallRunning => sessions = 0
          /\ gw.status # "pending" => NoCallRunning)
    /\ [][ (gw.status # "pending" /\ gw'.status = "pending") =>
              /\ NoCallRunning
              /\ sessions = 0
              /\ \/ pc = "entry"
                 \/ pc = "waiting" /\ now >= waitUntil
         ]_vars

\* the second query of a request, after a wait, with its session open
C19_Witness ==
    /\ pc = "fetching"
    /\ waitUntil > startedAt
    /\ now >= waitUntil
    /\ latest = Absent
    /\ call.pc = "loop"
    /\ sessions = 1

\* the message the returned URL was found in, as the store has it
Returned == store[latest[1].uid]

\* the message m is unread if the options ask for unread messages
UnreadAsAsked(m) == arg.unreadOnly => ~m.seen

\* the message m is inside the since-window of the query if the options set
\* one
RecentAsAsked(m) == arg.sinceMs # 0 => m.received >= call.sinceDate[1]

====
